---- MODULE Spec2Model ----
(***************************************************************************)
(* Monoids::AccumulateExperiments::Reduce (monoids.h): the divide and      *)
(* conquer reduction that splits [begin, end) in halves, runs each half as *)
(* a std::async task and joins the two futures.                            *)
(*                                                                         *)
(* A range is a sequence of elements; positions are offsets 0..Len, so the *)
(* subrange [b, e) holds range[b+1] .. range[e].  Every invocation of      *)
(* Reduce is a frame, named by its path from the top-level call (<<>> the  *)
(* top-level call, p \o <<0>> its lhsTask, p \o <<1>> its rhsTask).         *)
(***************************************************************************)
EXTENDS Integers, Sequences, FiniteSets, TLC

\* Longest range handed to Reduce.
MaxLen == 3

\* Largest value std::thread::hardware_concurrency() reports.
MaxConc == 3

\* Largest number of threads the platform lets one top-level call start
\* before std::async throws std::system_error; enough for every recursion
\* that splits a range of up to MaxLen elements down to single elements.
MaxTasks == 2 * MaxLen - 2

VARIABLES
    hw,         \* std::thread::hardware_concurrency()
    cap,        \* the threads the platform lets one top-level call start
    loadInit,   \* has the function-local static `load` been initialised
    load,       \* the function-local static `load`
    call,       \* the arguments of the top-level call in progress
    frames,     \* the invocations of Reduce that are alive, by path
    outcome,    \* what the last top-level call gave its caller
    hist        \* what the call in progress has done so far

vars == <<hw, cap, loadInit, load, call, frames, outcome, hist>>

----------------------------------------------------------------------------
\* The combining operations handed to Reduce and their inputs.

\* The element on which the operation "checked_plus" throws.
Poison == 0 - 1

Ops == {"plus", "checked_plus", "concat"}

\* The ranges a caller passes, by operation and length: for "checked_plus"
\* every range of ones and poisoned elements; for the other two the range
\* 1, 2, .., n, whose elements are all different, so that a result shows
\* which elements went into it and, for "concat", in which order.
RangesOf(o, n) ==
    IF o = "checked_plus" THEN [1..n -> {1, Poison}] ELSE {[k \in 1..n |-> k]}

\* The identity of an operation.
Identity(o) == IF o = "concat" THEN <<>> ELSE 0

\* The seeds a caller passes: the identity, and for addition also 1.  The
\* seed of "concat" is the empty sequence only: Reduce hands init on with
\* std::forward<Value> more than once, and a moved-from empty string is
\* empty, so every invocation sees the seed the caller passed.
Seeds(o) == IF o = "plus" THEN {0, 1} ELSE {Identity(o)}

\* Does combine(acc, x) throw.
Raises(o, acc, x) == o = "checked_plus" /\ x = Poison

\* combine(acc, x) on two values of the result type.
Combine(o, acc, x) == IF o = "concat" THEN acc \o x ELSE acc + x

\* An element as the second argument of combine: a character appended to a
\* string is the one-character string concatenated.
AsValue(o, x) == IF o = "concat" THEN <<x>> ELSE x

Ranges(o) == UNION {RangesOf(o, n) : n \in 0..MaxLen}

----------------------------------------------------------------------------
\* Results of an invocation: a value, or an exception in flight.

Val(v) == [kind |-> "value", v |-> v, what |-> "none"]
\* A failure turned into a default value.
ErrAsDefault(w, o) == [kind |-> "value", v |-> Identity(o), what |-> "none"]

\* An exception carries no value: the field v is filled with the identity.
Err(w, o) == [kind |-> "error", v |-> Identity(o), what |-> w]

\* std::accumulate(first, last, init, combine) over range[b+1..e]: the
\* accumulator after each element, left to right; stops at the first throw.
RECURSIVE Accumulate(_, _, _, _, _)
Accumulate(o, r, b, e, acc) ==
    IF b >= e THEN Val(acc)
    ELSE IF Raises(o, acc, r[b + 1]) THEN Err("op_error", o)
    ELSE Accumulate(o, r, b + 1, e, Combine(o, acc, AsValue(o, r[b + 1])))

\* LeftFold(container, init, combine)
LeftFold(o, r, init) == Accumulate(o, r, 0, Len(r), init)

----------------------------------------------------------------------------
\* Reduce, one invocation per frame.

\* The load without the division by the hardware concurrency.
LoadOfWhole(n, c) == n

\* std::distance(begin, end) / std::thread::hardware_concurrency()
LoadOf(n, c) == n \div c

\* The base case tested with < in place of <=.
IsLeafStrict(b, e, l) == e - b < l

\* if (std::distance(begin, end) <= load): the sequential base case
IsLeaf(b, e, l) == e - b <= l

\* The midpoint with the odd element given to the left half.
MiddleCeil(b, e) == b + ((e - b + 1) \div 2)

\* std::next(begin, std::distance(begin, end) / 2)
Middle(b, e) == b + ((e - b) \div 2)

NoFrames == [p \in {} |-> 0]

\* An invocation whose std::accumulate starts at the first element of the
\* whole range in place of the first element of its subrange.
FrameFromStart(b, e, init) ==
    [b |-> b, e |-> e, pc |-> "enter", thr |-> 0, i |-> 0, acc |-> init,
     made |-> 0, got |-> {}, gets |-> 0, res |-> Val(init)]

\* A new invocation Reduce(begin, end, init, combine) over [b, e).
Frame(b, e, init) ==
    [b |-> b, e |-> e, pc |-> "enter", thr |-> 0, i |-> b, acc |-> init,
     made |-> 0, got |-> {}, gets |-> 0, res |-> Val(init)]

Lhs(p) == p \o <<0>>
Rhs(p) == p \o <<1>>
Children(p) == {Lhs(p), Rhs(p)} \cap DOMAIN frames

\* The tasks (threads started by std::async) that have not finished.
Live == {p \in DOMAIN frames : p # <<>> /\ frames[p].pc # "done"}

NoHist ==
    [leaves |-> {}, folds |-> 0, uses |-> <<>>, joins |-> 0, tasks |-> 0,
     refused |-> FALSE, thresholds |-> {}, writes |-> {}, first |-> FALSE]

\* hardware_concurrency() is at least 1 here; when it reports 0 the static
\* initialiser divides by zero.
Start ==
    /\ hw \in 1..MaxConc
    /\ loadInit = FALSE
    /\ load = 0
    /\ call = [active |-> FALSE, op |-> "plus", range |-> <<>>, init |-> 0]
    /\ frames = NoFrames
    /\ outcome = [kind |-> "none", v |-> 0, what |-> "none"]
    /\ hist = NoHist

\* A platform with threads for every recursion that ends.
Init == Start /\ cap = MaxTasks

\* A platform that may refuse a thread at any point of a call.
InitScarce == Start /\ cap \in 0..MaxTasks

\* A caller calls Reduce(std::begin(values), std::end(values), init, combine).
Call ==
    /\ ~call.active
    /\ \E o \in Ops : \E r \in Ranges(o) : \E s \in Seeds(o) :
        /\ call' = [active |-> TRUE, op |-> o, range |-> r, init |-> s]
        /\ frames' = (<<>> :> Frame(0, Len(r), s))
        /\ outcome' = [kind |-> "none", v |-> s, what |-> "none"]
        /\ hist' = [NoHist EXCEPT !.uses = [k \in 1..Len(r) |-> 0],
                                  !.first = ~loadInit]
    /\ UNCHANGED <<hw, cap, loadInit, load>>

\* The frames fr once frame p has ended with result r: its two futures
\* are destroyed with it.
Ended(fr, p, r) ==
    [q \in DOMAIN fr \ {Lhs(p), Rhs(p)} |->
        IF q = p
        THEN [fr[p] EXCEPT !.pc = "done", !.res = r, !.i = fr[p].e, !.acc = r.v]
        ELSE fr[q]]

\* The frame p ends with result r.
Finish(p, r) == frames' = Ended(frames, p, r)

\* Is the shared state of the future for frame q ready (its task has ended).
Ready(q) == q \in DOMAIN frames /\ frames[q].pc = "done"

\* Futures whose destructor returns at once, whatever their task is doing.
FuturesDetached(p) == TRUE

\* A future returned by std::async blocks in its destructor until its task
\* has ended: the futures of frame p can all be destroyed.
FuturesDestructible(p) == \A q \in Children(p) : Ready(q)

\* Can std::async start one more thread.
CanStart == hist.tasks < cap

\* Lines 101-106: the static initialiser runs in the first invocation ever,
\* then the subrange is compared with `load`.
Enter(p) ==
    /\ p \in DOMAIN frames
    /\ frames[p].pc = "enter"
    /\ LET f == frames[p]
           l == IF loadInit THEN load ELSE LoadOf(f.e - f.b, hw)
           h == [hist EXCEPT
                   !.thresholds = @ \cup {l},
                   !.writes = IF loadInit THEN @
                              ELSE @ \cup {[by |-> p, live |-> Live \ {p}]}]
       IN  /\ loadInit' = TRUE
           /\ load' = l
           /\ IF IsLeaf(f.b, f.e, l)
              THEN /\ hist' = [h EXCEPT
                                !.leaves = @ \cup {<<f.b, f.e>>},
                                !.folds = @ + 1]
                   /\ IF f.b = f.e
                      THEN frames' = [frames EXCEPT ![p].pc = "done", ![p].thr = l,
                                                    ![p].res = Val(f.acc)]
                      ELSE frames' = [frames EXCEPT ![p].pc = "fold", ![p].thr = l]
              ELSE /\ hist' = h
                   /\ frames' = [frames EXCEPT ![p].pc = "lhs", ![p].thr = l]
    /\ UNCHANGED <<hw, cap, call, outcome>>

\* Line 106: one step of std::accumulate, the accumulator combined with the
\* next element of the subrange.
FoldStep(p) ==
    /\ p \in DOMAIN frames
    /\ frames[p].pc = "fold"
    /\ LET f == frames[p]
           x == call.range[f.i + 1]
           a == Combine(call.op, f.acc, AsValue(call.op, x))
       IN  /\ hist' = [hist EXCEPT !.uses[f.i + 1] = @ + 1]
           /\ IF Raises(call.op, f.acc, x)
              THEN Finish(p, Err("op_error", call.op))
              ELSE IF f.i + 1 = f.e
              THEN Finish(p, Val(a))
              ELSE frames' = [frames EXCEPT ![p].acc = a, ![p].i = f.i + 1]
    /\ UNCHANGED <<hw, cap, loadInit, load, call, outcome>>

\* Lines 110-112: lhsTask = CreateTask(std::launch::async, Reduce, begin,
\* middle, init, combine); std::async throws when no thread can be started.
DispatchLhs(p) ==
    /\ p \in DOMAIN frames
    /\ frames[p].pc = "lhs"
    /\ LET f == frames[p]
       IN  IF CanStart
           THEN /\ frames' = [frames EXCEPT ![p].pc = "rhs", ![p].made = @ + 1]
                           @@ (Lhs(p) :> Frame(f.b, Middle(f.b, f.e), call.init))
                /\ hist' = [hist EXCEPT !.tasks = @ + 1]
           ELSE /\ Finish(p, Err("system_error", call.op))
                /\ hist' = [hist EXCEPT !.refused = TRUE]
    /\ UNCHANGED <<hw, cap, loadInit, load, call, outcome>>

\* Lines 114-115: rhsTask = CreateTask(std::launch::async, Reduce, middle,
\* end, init, combine); when std::async throws, lhsTask is destroyed during
\* unwinding.
DispatchRhs(p) ==
    /\ p \in DOMAIN frames
    /\ frames[p].pc = "rhs"
    /\ LET f == frames[p]
       IN  IF CanStart
           THEN /\ frames' = [frames EXCEPT ![p].pc = "join", ![p].made = @ + 1]
                           @@ (Rhs(p) :> Frame(Middle(f.b, f.e), f.e, call.init))
                /\ hist' = [hist EXCEPT !.tasks = @ + 1]
           ELSE /\ frames' = [frames EXCEPT ![p].pc = "unwind",
                                            ![p].res = Err("system_error", call.op)]
                /\ hist' = [hist EXCEPT !.refused = TRUE]
    /\ UNCHANGED <<hw, cap, loadInit, load, call, outcome>>

\* get() called twice on one future.
GotTwice(p, q) == [frames EXCEPT ![p].got = @ \cup {q}, ![p].gets = @ + 2]

\* The result of get() on the future of child q, taken by frame p.
Got(p, q) == [frames EXCEPT ![p].got = @ \cup {q}, ![p].gets = @ + 1]

\* Line 119, combine(init, lhsTask.get()) evaluated before rhsTask.get():
\* get() blocks until the task has ended and rethrows what it threw.
GetLhsFirst(p) ==
    /\ p \in DOMAIN frames
    /\ frames[p].pc = "join"
    /\ Ready(Lhs(p))
    /\ LET l == frames[Lhs(p)].res
       IN  IF l.kind = "error"
           THEN /\ frames' = [Got(p, Lhs(p)) EXCEPT ![p].pc = "unwind", ![p].res = l]
                /\ hist' = hist
           ELSE /\ hist' = [hist EXCEPT !.joins = @ + 1]
                /\ IF Raises(call.op, call.init, l.v)
                   THEN frames' = [Got(p, Lhs(p)) EXCEPT
                                     ![p].pc = "unwind",
                                     ![p].res = Err("op_error", call.op)]
                   ELSE frames' = [Got(p, Lhs(p)) EXCEPT
                                     ![p].pc = "getR",
                                     ![p].acc = Combine(call.op, call.init, l.v)]
    /\ UNCHANGED <<hw, cap, loadInit, load, call, outcome>>

\* Line 119, rhsTask.get() after the inner combine, then the outer combine.
GetRhsSecond(p) ==
    /\ p \in DOMAIN frames
    /\ frames[p].pc = "getR"
    /\ Ready(Rhs(p))
    /\ LET f == frames[p]
           r == frames[Rhs(p)].res
       IN  IF r.kind = "error"
           THEN /\ frames' = Ended(Got(p, Rhs(p)), p, r)
                /\ hist' = hist
           ELSE /\ hist' = [hist EXCEPT !.joins = @ + 1]
                /\ IF Raises(call.op, f.acc, r.v)
                   THEN frames' = Ended(Got(p, Rhs(p)), p, Err("op_error", call.op))
                   ELSE frames' = Ended(Got(p, Rhs(p)), p, Val(Combine(call.op, f.acc, r.v)))
    /\ UNCHANGED <<hw, cap, loadInit, load, call, outcome>>

\* Line 119, rhsTask.get() evaluated before combine(init, lhsTask.get()):
\* the two arguments of the outer combine are indeterminately sequenced.
GetRhsFirst(p) ==
    /\ p \in DOMAIN frames
    /\ frames[p].pc = "join"
    /\ Ready(Rhs(p))
    /\ LET r == frames[Rhs(p)].res
       IN  IF r.kind = "error"
           THEN frames' = [Got(p, Rhs(p)) EXCEPT ![p].pc = "unwind", ![p].res = r]
           ELSE frames' = [Got(p, Rhs(p)) EXCEPT ![p].pc = "getL", ![p].acc = r.v]
    /\ UNCHANGED <<hw, cap, loadInit, load, call, outcome, hist>>

\* Line 119, lhsTask.get() after rhsTask.get(), then both combines.
GetLhsSecond(p) ==
    /\ p \in DOMAIN frames
    /\ frames[p].pc = "getL"
    /\ Ready(Lhs(p))
    /\ LET f == frames[p]
           l == frames[Lhs(p)].res
           inner == Combine(call.op, call.init, l.v)
       IN  IF l.kind = "error"
           THEN /\ frames' = Ended(Got(p, Lhs(p)), p, l)
                /\ hist' = hist
           ELSE IF Raises(call.op, call.init, l.v)
           THEN /\ frames' = Ended(Got(p, Lhs(p)), p, Err("op_error", call.op))
                /\ hist' = [hist EXCEPT !.joins = @ + 1]
           ELSE /\ hist' = [hist EXCEPT !.joins = @ + 2]
                /\ IF Raises(call.op, inner, f.acc)
                   THEN frames' = Ended(Got(p, Lhs(p)), p, Err("op_error", call.op))
                   ELSE frames' = Ended(Got(p, Lhs(p)), p, Val(Combine(call.op, inner, f.acc)))
    /\ UNCHANGED <<hw, cap, loadInit, load, call, outcome>>

\* An exception leaves the invocation: rhsTask and lhsTask are destroyed,
\* each destructor blocking until its task has ended.
Unwind(p) ==
    /\ p \in DOMAIN frames
    /\ frames[p].pc = "unwind"
    /\ FuturesDestructible(p)
    /\ Finish(p, frames[p].res)
    /\ UNCHANGED <<hw, cap, loadInit, load, call, outcome, hist>>

\* The top-level invocation gives its result, or its exception, to the caller.
ReturnToCaller ==
    /\ call.active
    /\ Ready(<<>>)
    /\ outcome' = frames[<<>>].res
    /\ frames' = NoFrames
    /\ call' = [call EXCEPT !.active = FALSE]
    /\ UNCHANGED <<hw, cap, loadInit, load, hist>>

Next ==
    \/ Call
    \/ \E p \in DOMAIN frames : Enter(p)
    \/ \E p \in DOMAIN frames : FoldStep(p)
    \/ \E p \in DOMAIN frames : DispatchLhs(p)
    \/ \E p \in DOMAIN frames : DispatchRhs(p)
    \/ \E p \in DOMAIN frames : GetLhsFirst(p)
    \/ \E p \in DOMAIN frames : GetRhsSecond(p)
    \/ \E p \in DOMAIN frames : GetRhsFirst(p)
    \/ \E p \in DOMAIN frames : GetLhsSecond(p)
    \/ \E p \in DOMAIN frames : Unwind(p)
    \/ ReturnToCaller

Spec == Init /\ [][Next]_vars

SpecScarce == InitScarce /\ [][Next]_vars

----------------------------------------------------------------------------
\* Properties of Reduce.

\* The top-level call has given its result or its exception to the caller.
Returned == ~call.active /\ outcome.kind # "none"

\* Has the range an element on which the operation throws.
HasPoison == \E k \in 1..Len(call.range) : call.range[k] = Poison

\* C1: for integer addition and its identity seed 0, every top-level call
\* gives the caller the value of the sequential left fold of the range, for
\* every range length and every hardware concurrency.
C1_ReduceEqualsLeftFold ==
    (Returned /\ call.op \in {"plus", "checked_plus"} /\ ~HasPoison
              /\ call.init = Identity(call.op))
        => outcome = LeftFold(call.op, call.range, call.init)

\* C2: a call on a single-element range [e] gives the caller
\* combine(seed, e), for every hardware concurrency.
C2_SingleElement ==
    (Returned /\ Len(call.range) = 1
              /\ ~Raises(call.op, call.init, call.range[1]))
        => outcome = Val(Combine(call.op, call.init,
                                 AsValue(call.op, call.range[1])))

\* C3: the recursion is well founded and runs to completion: every task
\* works on a subrange strictly shorter than the one of the invocation that
\* dispatched it, and no call ends because the recursion asked for more
\* threads than any recursion over the range needs.
C3_Terminates ==
    /\ \A p \in DOMAIN frames :
          \A q \in Children(p) :
             frames[q].e - frames[q].b < frames[p].e - frames[p].b
    /\ \A p \in DOMAIN frames : frames[p].res.what # "system_error"
    /\ outcome.what # "system_error"

\* C4: the threshold every invocation of a top-level call compares with is
\* that call's own range length divided by the hardware concurrency.
C4_FreshLoadPerCall ==
    hist.thresholds \subseteq {LoadOf(Len(call.range), hw)}

\* C5: a call on an empty range dispatches no task, applies combine to no
\* element and at no join, and gives the caller the seed, on the first call
\* and on later calls alike.
C5_EmptyRange ==
    call.range = <<>> =>
        /\ hist.tasks = 0
        /\ hist.joins = 0
        /\ \A p \in DOMAIN frames : frames[p].pc \in {"enter", "done"}
        /\ Returned => outcome = Val(call.init)

\* C5 witness: a later call, with a seed that is not the identity, on an
\* empty range has returned.
C5_Witness ==
    /\ Returned
    /\ call.range = <<>>
    /\ ~hist.first
    /\ call.op = "plus"
    /\ call.init = 1
    /\ hist.folds = 1


\* C6: when the range holds an element on which combine throws, the call
\* ends by raising that error to the caller and gives no value.
C6_ErrorPropagates ==
    (Returned /\ HasPoison)
        => (outcome.kind = "error" /\ outcome.what = "op_error")

\* The invocation p ends in this step.
Ends(p) ==
    /\ frames[p].pc # "done"
    /\ p \notin DOMAIN frames' \/ frames'[p].pc = "done"

\* C7: an invocation ends, with a value or an exception, only when every
\* task it dispatched has ended, and no task is running when the top-level
\* call gives its result to the caller.
C7_JoinBeforeReturn ==
    [][/\ \A p \in DOMAIN frames :
             Ends(p) => \A q \in Children(p) : frames[q].pc = "done"
       /\ (call.active /\ ~call.active') => Live = {}]_vars

\* C7 witness: lhsTask.get() has thrown in an invocation whose rhsTask is
\* still running; the exception waits for it.
C7_Witness ==
    \E p \in DOMAIN frames :
        /\ frames[p].pc = "unwind"
        /\ Lhs(p) \in frames[p].got
        /\ Rhs(p) \in DOMAIN frames
        /\ frames[Rhs(p)].pc \in {"enter", "fold"}

\* C8: for sequence concatenation and its identity seed, the empty
\* sequence, every call gives the caller the sequential left fold: the
\* elements in range order.
C8_ConcatEqualsLeftFold ==
    (Returned /\ call.op = "concat")
        => outcome = LeftFold(call.op, call.range, call.init)

\* C9: every invocation of a call, the top-level one and every descendant,
\* compares its subrange with one value, the one computed from the
\* top-level range length.
C9_OneThresholdFromTopLevel ==
    \A p \in DOMAIN frames :
        frames[p].pc # "enter"
            => frames[p].thr = LoadOf(Len(call.range), hw)

\* combine(combine(init, l), r) on the results of the two futures.
JoinOf(l, r) ==
    IF l.kind = "error" THEN l
    ELSE IF Raises(call.op, call.init, l.v) THEN Err("op_error", call.op)
    ELSE IF r.kind = "error" THEN r
    ELSE IF Raises(call.op, Combine(call.op, call.init, l.v), r.v)
    THEN Err("op_error", call.op)
    ELSE Val(Combine(call.op, Combine(call.op, call.init, l.v), r.v))

\* The schedule that runs every left half to its end before the right half
\* is dispatched: the result, the leaf subranges and the tasks started.
RECURSIVE LeftFirst(_, _, _, _)
LeftFirst(b, e, l, used) ==
    IF IsLeaf(b, e, l)
    THEN [res |-> Accumulate(call.op, call.range, b, e, call.init),
          leaves |-> {<<b, e>>}, used |-> used]
    ELSE IF used >= cap
    THEN [res |-> Err("system_error", call.op), leaves |-> {}, used |-> used]
    ELSE LET L == LeftFirst(b, Middle(b, e), l, used + 1)
         IN  IF L.used >= cap
             THEN [res |-> Err("system_error", call.op),
                   leaves |-> L.leaves, used |-> L.used]
             ELSE LET R == LeftFirst(Middle(b, e), e, l, L.used + 1)
                  IN  [res |-> JoinOf(L.res, R.res),
                       leaves |-> L.leaves \cup R.leaves, used |-> R.used]

\* C10: whatever the interleaving of the tasks, a call gives the result and
\* folds the leaf subranges of the left-half-first schedule, and the only
\* variable the invocations share, the static load, is written while no
\* task is running.
C10_SameUnderEveryInterleaving ==
    /\ Returned =>
         LET ref == LeftFirst(0, Len(call.range), load, 0)
         IN  outcome = ref.res /\ hist.leaves = ref.leaves
    /\ \A w \in hist.writes : w.by = <<>> /\ w.live = {}

\* The leaf folds of a recursion over [b, e) whose threshold is l >= 1.
RECURSIVE LeafCount(_, _, _)
LeafCount(b, e, l) ==
    IF IsLeaf(b, e, l) THEN 1
    ELSE LeafCount(b, Middle(b, e), l) + LeafCount(Middle(b, e), e, l)

\* ceil(n / d) for d >= 1
CeilDiv(n, d) == (n + d - 1) \div d

\* C11: the number of leaf folds of a call is fixed by the range length n
\* and the hardware concurrency: it is the number of leaves of the recursion
\* with threshold n / concurrency, and at most ceil(n / (n / concurrency)).
C11_LeafFoldsFixedAndBounded ==
    LET n == Len(call.range)
        l == LoadOf(n, hw)
    IN  (Returned /\ l >= 1)
            => /\ hist.folds = LeafCount(0, n, l)
               /\ hist.folds <= CeilDiv(n, l)

IsPowerOfTwo(c) == \E k \in 0..c : c = 2 ^ k

\* The first call of the program has returned, on a range whose length is
\* a positive multiple of the hardware concurrency, itself a power of two.
EvenSplitCase ==
    /\ Returned
    /\ hist.first
    /\ Len(call.range) >= 1
    /\ Len(call.range) % hw = 0
    /\ IsPowerOfTwo(hw)

\* The call has folded exactly hw leaves, each of length n / hw, and has
\* given the caller what the sequential fold gives.
EvenSplitResult ==
    /\ hist.folds = hw
    /\ Cardinality(hist.leaves) = hw
    /\ \A s \in hist.leaves : s[2] - s[1] = Len(call.range) \div hw
    /\ outcome = LeftFold(call.op, call.range, call.init)

\* C13: when n is a positive multiple of the concurrency c, a power of two,
\* a first call performs exactly c leaf folds of length n / c each and
\* returns the sequential-fold result.
C13_EvenSplit == EvenSplitCase => EvenSplitResult

\* C13 as amended: the same, for a seed that is the operation's identity.
C13_EvenSplitIdentitySeed ==
    (EvenSplitCase /\ call.init = Identity(call.op)) => EvenSplitResult

\* C13 witness: a first call with concurrency 2 on a two-element range and
\* the identity seed has split once and returned a value.
C13_Witness ==
    /\ EvenSplitCase
    /\ call.init = Identity(call.op)
    /\ hw = 2
    /\ Len(call.range) = 2
    /\ hist.leaves = {<<0, 1>>, <<1, 2>>}
    /\ outcome.kind = "value"

\* C14: when std::async refuses a thread, the call gives its caller an
\* error and no value; the call is never stuck while it is in progress; and
\* the invocation whose dispatch failed ends only when the task it had
\* already dispatched has ended.
C14_DispatchFailureReported ==
    /\ [](/\ (Returned /\ hist.refused) => outcome.kind = "error"
          /\ call.active => ENABLED Next)
    /\ [][\A p \in DOMAIN frames :
             Ends(p) => \A q \in Children(p) : frames[q].pc = "done"]_vars

\* C14 witness: in a recursion that would have ended, the thread for
\* rhsTask was refused; lhsTask had been dispatched and has folded its
\* element by the time the caller gets std::system_error.
C14_Witness ==
    /\ Returned
    /\ hist.refused
    /\ load >= 1
    /\ outcome.what = "system_error"
    /\ hist.tasks = 1
    /\ Len(call.range) = 2
    /\ hist.uses[1] = 1

\* The sum of the elements of a range of integers.
RECURSIVE SumOf(_)
SumOf(r) == IF r = <<>> THEN 0 ELSE r[1] + SumOf(Tail(r))

LeavesPartition(n) ==
    /\ \A s \in hist.leaves :
          /\ 0 <= s[1] /\ s[1] <= s[2] /\ s[2] <= n
          /\ n >= 1 => s[1] < s[2]
          /\ s[1] = 0 \/ \E t \in hist.leaves : t[2] = s[1]
          /\ s[2] = n \/ \E t \in hist.leaves : t[1] = s[2]
    /\ \A k \in 1..n :
          Cardinality({s \in hist.leaves : s[1] < k /\ k <= s[2]}) = 1
    /\ n = 0 => hist.leaves = {<<0, 0>>}
    /\ hist.folds = Cardinality(hist.leaves)

\* Every element of the range was given to combine exactly once.
EachElementOnce == \A k \in 1..Len(call.range) : hist.uses[k] = 1

\* C16 as stated: in every call that has ended, with a value or with an
\* exception, the leaf subranges partition the range and every element was
\* given to combine exactly once.
C16_LeavesPartitionInput ==
    Returned => (LeavesPartition(Len(call.range)) /\ EachElementOnce)

\* C16, amended: in every call that returns a value the leaf subranges
\* partition the range, each is folded once and every element was given to
\* combine exactly once; in every call, however it ends, no element is given
\* to combine twice, and the range is the same from the call to its return.
C16_LeavesPartitionWhenValue ==
    /\ []((Returned /\ outcome.kind = "value")
             => (LeavesPartition(Len(call.range)) /\ EachElementOnce))
    /\ [](\A k \in 1..Len(call.range) : hist.uses[k] <= 1)
    /\ [][call.active => call'.range = call.range]_vars

\* C16 witness: three elements and three threads, so threshold 1: the call
\* returns a value after folding [0, 1), [1, 2) and [2, 3).
C16_Witness ==
    /\ Returned
    /\ outcome.kind = "value"
    /\ Len(call.range) = 3
    /\ hist.leaves = {<<0, 1>>, <<1, 2>>, <<2, 3>>}
    /\ hist.folds = 3
    /\ EachElementOnce

====
